---- MODULE Spec2Model ----
(***************************************************************************)
(* Size-bounded LRU cache of OpenSlide's Rust port                         *)
(* (rust/src/cache.rs, duplicated in rust/src/lrucache.rs).                *)
(*                                                                         *)
(* The cache is `LruCache<K, V>(Mutex<_LruCache<K, V>>)`.  Every public    *)
(* method takes the mutex first and drops the guard when it returns.  The  *)
(* methods are modelled statement by statement so that the states between  *)
(* two statements exist in the model.  A thread that is outside the       *)
(* methods or blocked in `lock()` has pc = "idle"; the arguments of a call *)
(* are chosen when the lock is taken: nothing reads them before.           *)
(***************************************************************************)
EXTENDS Integers, Sequences, FiniteSets, TLC

\* ---------------------------------------------------------------- bounds
\* Largest declared entry size a caller passes to put.
MaxSize == 2
\* Largest capacity a caller passes to new / set_capacity.
MaxCapacity == 2
\* Width of `usize` in the model (the real one is 64 bits; the c_int range
\* of the callers is far below it, as MaxSize/MaxCapacity are below 2^UsizeBits).
UsizeBits == 5
\* Width of `c_int` in the model (the real one is 32 bits, half of usize).
CIntBits == 3
\* Most entry handles the callers hold or have requested at a time.
MaxHandles == 2
\* Most bytes a QuickHash1 is fed.
MaxAbsorbed == 4
\* Largest buffer a caller passes to FileSlice::read.
MaxBuf == 3

Threads == {"t1", "t2"}
Keys == {"A", "B", "C"}
Vals == {"v1", "v2"}

NoThread == "free"
NoKey == "nokey"
NoVal == "None"

\* History marks of a key that has no resident entry.
Never == "never"
Evicted == "evicted"

Sizes == 0..MaxSize
Capacities == 0..MaxCapacity

\* Capacity given to LruCache::new in Init.
InitialCapacities == Capacities

\* ------------------------------------------------------ usize arithmetic
UsizeMod == 2 ^ UsizeBits

\* `a + b` on usize (release build: wraps).
UAdd(a, b) == (a + b) % UsizeMod

\* `a -= b` on usize (release build: wraps).
USub(a, b) == (a - b + UsizeMod) % UsizeMod

\* ------------------------------------------------- LinkedHashMap helpers
\* CacheItem { entry, size } stored under `key`.
CacheItem(k, v, s) == [key |-> k, entry |-> v, size |-> s]

KeysOf(l) == [i \in DOMAIN l |-> l[i].key]

contains(l, k) == \E i \in DOMAIN l : l[i].key = k

\* The item stored under k (k is present).
ItemOf(l, k) == l[CHOOSE i \in DOMAIN l : l[i].key = k]

\* LinkedHashMap::remove: the map without k, order of the rest kept.
remove(l, k) == SelectSeq(l, LAMBDA e : e.key # k)

\* Mutant of insert: the item goes to the front.
insert_front(l, item) == <<item>> \o SelectSeq(l, LAMBDA e : e.key # item.key)

\* LinkedHashMap::insert: the item goes to the back (an item already stored
\* under the key is replaced; put has removed it before).
insert(l, item) == Append(SelectSeq(l, LAMBDA e : e.key # item.key), item)

\* Mutant of get_refresh: `remove`, which takes the item out of the map.
get_refresh_remove(l, k) == SelectSeq(l, LAMBDA e : e.key # k)

\* Mutant of get_refresh: a plain `get`, which leaves the order alone.
get_norefresh(l, k) == l

\* LinkedHashMap::get_refresh: a present key moves to the back.
get_refresh(l, k) == IF contains(l, k) THEN Append(remove(l, k), ItemOf(l, k)) ELSE l

\* Mutant of pop_front: `front`, which reads the first item and removes nothing.
pop_front_peek(l) == [item |-> Head(l), rest |-> l]

\* Mutant of pop_front: `pop_back`, which takes the most recently used item.
pop_back(l) == [item |-> l[Len(l)], rest |-> SubSeq(l, 1, Len(l) - 1)]

\* LinkedHashMap::pop_front on a non-empty map: the first (least recently
\* used) item, and the map that is left.
pop_front(l) == [item |-> Head(l), rest |-> Tail(l)]

\* What `get` reads for k: the entry stored under k, or None.
lookup(l, k) == IF contains(l, k) THEN ItemOf(l, k).entry ELSE NoVal

RECURSIVE SumSizes(_)
SumSizes(l) == IF l = <<>> THEN 0 ELSE Head(l).size + SumSizes(Tail(l))

\* Removal of a key from a sequence of keys.
WithoutKey(ks, k) == SelectSeq(ks, LAMBDA x : x # k)

IsPrefix(p, l) == Len(p) <= Len(l) /\ SubSeq(l, 1, Len(p)) = p

\* ------------------------------------------------------------------ state
VARIABLES
    lru,          \* _LruCache.lru: sequence of CacheItem, front = least recently used
    capacity,     \* _LruCache.capacity
    total_size,   \* _LruCache.total_size
    mutex,        \* the Mutex around _LruCache: its holder, or NoThread
    pc,           \* per thread: the statement it is at
    call,         \* per thread: the method it runs and its arguments
    pre,          \* history: the cache as it was when the running method took the lock
    evicted,      \* history: the items popped by _shrink_to_fit in the running method
    last,         \* history: the method that returned last, its arguments and result
    recency,      \* history: resident keys by last put / hit, oldest first
    latest,       \* history: per key, the value of its last put, or Never / Evicted
    configured,   \* history: the capacity given to new or to the latest set_capacity
    waiting,      \* the threads that have called a method and are blocked in lock()
    alive,        \* the Box made by _openslide_cache_create has not been dropped
    given,        \* the buffers that were handed to _openslide_cache_put
    strong,       \* per buffer: the strong count of the Arc<CacheEntry> around it
    held,         \* per buffer: the entry handles (Arc::into_raw) the callers hold
    freed,        \* per buffer: the calls of g_slice_free1 on it
    pend,         \* per thread: the boundary call it is in and the Arc it got back
    hash_alive,   \* the Box made by _openslide_hash_quickhash1_create has not been dropped
    hasher,       \* QuickHash1.hasher: None, or the bytes the Sha256 has been fed
    checksum,     \* QuickHash1.checksum: the string _openslide_hash_get_string wrote last
    outcome,      \* history: the boundary call on a hash or null handle that ended last
    absorbed,     \* history: the bytes the callers have fed to the active digest, in call order
    request,      \* history: what the _openslide_hash_file_part call that ended last was asked
    slice,        \* a FileSlice: its file cursor and `remaining`, and the history of its reads
    stage         \* per thread: where it is in a decode-and-cache cycle, and its handle

ffiVars == <<alive, given, strong, held, freed, pend, stage>>

hashVars == <<hash_alive, hasher, checksum, outcome, absorbed, request, slice>>

engineVars == <<lru, capacity, total_size, mutex, pc, call, pre, evicted, last,
                recency, latest, configured, waiting>>

vars == <<lru, capacity, total_size, mutex, pc, call, pre, evicted, last,
          recency, latest, configured, waiting, alive, given, strong, held, freed, pend,
          hash_alive, hasher, checksum, outcome, absorbed, request, slice, stage>>

NoCall == [op |-> "none", key |-> NoKey, val |-> NoVal, size |-> 0, capacity_in_bytes |-> 0]

NoSnapshot == [lru |-> <<>>, capacity |-> 0, total_size |-> 0]

Snapshot == [lru |-> lru, capacity |-> capacity, total_size |-> total_size]

NoLast == [op |-> "none", key |-> NoKey, val |-> NoVal, size |-> 0, capacity_in_bytes |-> 0,
           ret |-> NoVal, ret_capacity |-> 0, pre |-> NoSnapshot, evicted |-> <<>>]

\* The record left behind by thread t's method when it returns r / rc.
Returned(t, r, rc, ev) ==
    [op |-> call[t].op, key |-> call[t].key, val |-> call[t].val, size |-> call[t].size,
     capacity_in_bytes |-> call[t].capacity_in_bytes,
     ret |-> r, ret_capacity |-> rc, pre |-> pre, evicted |-> ev]

\* The buffers (g_slice_alloc) the callers hand to _openslide_cache_put.
Buffers == Vals

\* The buffer of a tile that is cached without a handle being asked for.
OtherBuffer == "v3"

\* Every g_slice_alloc block the callers may hand over.
Allocations == Buffers \cup {OtherBuffer}

\* A thread that is in no boundary call that returns an entry.
NoPend == [busy |-> FALSE, entry |-> FALSE, arc |-> NoVal]

\* A worker thread that has not begun its cycle.
NoStage == [at |-> "start", missed |-> FALSE, handle |-> NoVal]

\* Box::into_raw(Box::new(LruCache::new(..))): nothing is cached or handed out.
InitFfi ==
    /\ alive = TRUE
    /\ given = {}
    /\ strong = [b \in Allocations |-> 0]
    /\ held = [b \in Allocations |-> 0]
    /\ freed = [b \in Allocations |-> 0]
    /\ pend = [t \in Threads |-> NoPend]
    /\ stage = [t \in Threads |-> NoStage]

\* No boundary call on a hash or null handle has ended yet.
NoOutcome == [op |-> "none", null |-> FALSE, ret |-> "void", error |-> "none", changed |-> FALSE]

\* The call that ended last is no _openslide_hash_file_part.
NoRequest == [filename |-> "none", negative |-> FALSE, opened |-> FALSE]

\* No FileSlice has been made.
NoSlice == [open |-> FALSE, offset |-> 0, length |-> 0, pos |-> 0, remaining |-> 0,
            yielded |-> <<>>, buflen |-> 0, before |-> 0, nread |-> 0]

\* QuickHash1::new(): hasher: Some(Sha256::new()), checksum: [0; ..]
InitHash ==
    /\ hash_alive = TRUE
    /\ hasher = [some |-> TRUE, fed |-> <<>>]
    /\ checksum = <<>>
    /\ outcome = NoOutcome
    /\ absorbed = <<>>
    /\ request = NoRequest
    /\ slice = NoSlice

\* LruCache::new(capacity_in_bytes)
Init ==
    /\ lru = <<>>
    /\ capacity \in InitialCapacities
    /\ total_size = 0
    /\ mutex = NoThread
    /\ pc = [t \in Threads |-> "idle"]
    /\ call = [t \in Threads |-> NoCall]
    /\ pre = NoSnapshot
    /\ evicted = <<>>
    /\ last = NoLast
    /\ recency = <<>>
    /\ latest = [k \in Keys |-> Never]
    /\ configured = capacity
    /\ waiting = {}
    /\ InitFfi
    /\ InitHash

\* ---------------------------------------------------------------- the lock
\* Mutant of lock: the method goes ahead without waiting for the mutex.
lock_unguarded(t) == mutex' = t

\* self.0.lock().unwrap(): blocks until the mutex is free, then holds it.
lock(t) == mutex = NoThread /\ mutex' = t

\* Mutant of unlock: the guard is leaked and the mutex stays locked.
unlock_leak(t) == mutex' = mutex

\* The MutexGuard goes out of scope when the method returns.
unlock(t) == mutex' = NoThread

\* What every method does when it takes the lock.
Begin(t, c, first) ==
    /\ pc[t] = "idle"
    /\ lock(t)
    /\ pc' = [pc EXCEPT ![t] = first]
    /\ call' = [call EXCEPT ![t] = c]
    /\ pre' = Snapshot
    /\ evicted' = <<>>
    /\ last' = NoLast

\* What every method does when it returns.
Finish(t, r, rc, ev) ==
    /\ unlock(t)
    /\ pc' = [pc EXCEPT ![t] = "idle"]
    /\ call' = [call EXCEPT ![t] = NoCall]
    /\ pre' = NoSnapshot
    /\ evicted' = <<>>
    /\ last' = Returned(t, r, rc, ev)

\* ------------------------------------------------------------ get_capacity
get_capacity_lock(t) ==
    /\ Begin(t, [NoCall EXCEPT !.op = "get_capacity"], "get_capacity")
    /\ UNCHANGED <<lru, capacity, total_size, recency, latest>>

\* Mutant of get_capacity: the size of the cached objects is returned.
get_capacity_total(t) ==
    /\ pc[t] = "get_capacity"
    /\ Finish(t, NoVal, total_size, <<>>)
    /\ UNCHANGED <<lru, capacity, total_size, recency, latest>>

get_capacity(t) ==
    /\ pc[t] = "get_capacity"
    /\ Finish(t, NoVal, capacity, <<>>)
    /\ UNCHANGED <<lru, capacity, total_size, recency, latest>>

\* ------------------------------------------------------------ set_capacity
set_capacity_lock(t, capacity_in_bytes) ==
    /\ Begin(t, [NoCall EXCEPT !.op = "set_capacity",
                               !.capacity_in_bytes = capacity_in_bytes], "set_capacity")
    /\ UNCHANGED <<lru, capacity, total_size, recency, latest>>

\* cache.capacity = capacity_in_bytes;
set_capacity(t) ==
    /\ pc[t] = "set_capacity"
    /\ capacity' = call[t].capacity_in_bytes
    /\ pc' = [pc EXCEPT ![t] = "shrink"]
    /\ UNCHANGED <<lru, total_size, mutex, call, pre, evicted, last,
                   recency, latest>>

\* --------------------------------------------------------- _shrink_to_fit
\* The `reserve` argument of the running _shrink_to_fit.
reserve(t) == IF call[t].op = "put" THEN call[t].size ELSE 0

\* Mutant of shrink_cond: the loop also runs when the cache is exactly full.
shrink_cond_greedy(t) == UAdd(total_size, reserve(t)) >= capacity

\* Mutant of shrink_cond: the comparison is off by one.
shrink_cond_offbyone(t) ==
    UAdd(total_size, IF call[t].op = "put" THEN call[t].size ELSE 0) > capacity + 1

\* Mutant of shrink_cond: the loop forgets the bytes it has to reserve.
shrink_cond_noreserve(t) == total_size > capacity

\* while self.total_size + reserve > self.capacity
shrink_cond(t) == UAdd(total_size, reserve(t)) > capacity

\* Mutant of shrink_to_fit_pop: the popped item's size is not subtracted.
shrink_to_fit_pop_nosubtract(t) ==
    /\ pc[t] = "shrink"
    /\ UAdd(total_size, IF call[t].op = "put" THEN call[t].size ELSE 0) > capacity
    /\ lru # <<>>
    /\ lru' = pop_front(lru).rest
    /\ evicted' = Append(evicted, pop_front(lru).item)
    /\ recency' = WithoutKey(recency, pop_front(lru).item.key)
    /\ latest' = [latest EXCEPT ![pop_front(lru).item.key] = Evicted]
    /\ UNCHANGED <<capacity, total_size, mutex, pc, call, pre, last>>

\* One iteration that pops: Some(val) => self.total_size -= val.1.size
shrink_to_fit_pop(t) ==
    /\ pc[t] = "shrink"
    /\ shrink_cond(t)
    /\ lru # <<>>
    /\ lru' = pop_front(lru).rest
    /\ total_size' = USub(total_size, pop_front(lru).item.size)
    /\ evicted' = Append(evicted, pop_front(lru).item)
    /\ recency' = WithoutKey(recency, pop_front(lru).item.key)
    /\ latest' = [latest EXCEPT ![pop_front(lru).item.key] = Evicted]
    /\ UNCHANGED <<capacity, mutex, pc, call, pre, last>>

\* Mutant of shrink_to_fit_exit: no `None => break`, the loop waits for its condition.
shrink_to_fit_exit_nobreak(t) == ~shrink_cond(t)

\* Mutant of shrink_to_fit_exit: the loop may be left before its condition fails.
shrink_to_fit_exit_early(t) == pc[t] = "shrink"

\* The loop ends: the condition is false, or pop_front gave None => break.
shrink_to_fit_exit(t) == ~shrink_cond(t) \/ lru = <<>>

\* set_capacity returns after _shrink_to_fit(0).
set_capacity_return(t) ==
    /\ pc[t] = "shrink"
    /\ call[t].op = "set_capacity"
    /\ shrink_to_fit_exit(t)
    /\ Finish(t, NoVal, 0, evicted)
    /\ UNCHANGED <<lru, capacity, total_size, recency, latest>>

\* --------------------------------------------------------------------- put
put_lock(t, key, val, size) ==
    /\ Begin(t, [NoCall EXCEPT !.op = "put", !.key = key, !.val = val, !.size = size],
             "put")
    /\ UNCHANGED <<lru, capacity, total_size, recency, latest>>

\* Mutant of put_remove: the replaced entry's size stays in total_size.
put_remove_nosubtract(t) ==
    /\ pc[t] = "put"
    /\ lru' = remove(lru, call[t].key)
    /\ recency' = WithoutKey(recency, call[t].key)
    /\ pc' = [pc EXCEPT ![t] = "shrink"]
    /\ UNCHANGED <<capacity, total_size, mutex, call, pre, evicted, last, latest>>

\* if let Some(old_val) = cache.lru.remove(&key) { cache.total_size -= old_val.size; }
put_remove(t) ==
    /\ pc[t] = "put"
    /\ IF contains(lru, call[t].key)
       THEN /\ lru' = remove(lru, call[t].key)
            /\ total_size' = USub(total_size, ItemOf(lru, call[t].key).size)
       ELSE UNCHANGED <<lru, total_size>>
    /\ recency' = WithoutKey(recency, call[t].key)
    /\ pc' = [pc EXCEPT ![t] = "shrink"]
    /\ UNCHANGED <<capacity, mutex, call, pre, evicted, last, latest>>

\* Mutant of put_insert: an entry larger than the capacity is not cached.
put_insert_reject(t) ==
    /\ pc[t] = "shrink"
    /\ call[t].op = "put"
    /\ (UAdd(total_size, call[t].size) <= capacity \/ lru = <<>>)
    /\ IF call[t].size > capacity
       THEN UNCHANGED <<lru, total_size, recency, latest>>
       ELSE /\ lru' = insert(lru, CacheItem(call[t].key, call[t].val, call[t].size))
            /\ total_size' = UAdd(total_size, call[t].size)
            /\ recency' = Append(WithoutKey(recency, call[t].key), call[t].key)
            /\ latest' = [latest EXCEPT ![call[t].key] = call[t].val]
    /\ Finish(t, call[t].val, 0, evicted)
    /\ UNCHANGED <<capacity>>

\* After _shrink_to_fit(size): insert at the back, total_size += size, return the Arc.
put_insert(t) ==
    /\ pc[t] = "shrink"
    /\ call[t].op = "put"
    /\ shrink_to_fit_exit(t)
    /\ lru' = insert(lru, CacheItem(call[t].key, call[t].val, call[t].size))
    /\ total_size' = UAdd(total_size, call[t].size)
    /\ recency' = Append(WithoutKey(recency, call[t].key), call[t].key)
    /\ latest' = [latest EXCEPT ![call[t].key] = call[t].val]
    /\ Finish(t, call[t].val, 0, evicted)
    /\ UNCHANGED <<capacity>>

\* --------------------------------------------------------------------- get
get_lock(t, key) ==
    /\ Begin(t, [NoCall EXCEPT !.op = "get", !.key = key], "get")
    /\ UNCHANGED <<lru, capacity, total_size, recency, latest>>

\* let val = cache.lru.get_refresh(key)?; Some(val.entry.clone())
get(t) ==
    /\ pc[t] = "get"
    /\ lru' = get_refresh(lru, call[t].key)
    /\ Finish(t, lookup(lru, call[t].key), 0, <<>>)
    /\ recency' = IF latest[call[t].key] \in Vals
                  THEN Append(WithoutKey(recency, call[t].key), call[t].key)
                  ELSE recency
    /\ UNCHANGED <<capacity, total_size, latest>>

\* ---------------------------------------------------------- specification
\* The callers of Spec are not tracked while they wait for the mutex.
Untracked == UNCHANGED <<waiting, ffiVars, hashVars>>

\* A step that is no call of set_capacity leaves the configured capacity.
Keep == UNCHANGED configured /\ Untracked

\* The capacity a set_capacity call is given.
Configure(n) == configured' = n /\ Untracked

Next ==
    \E t \in Threads :
        \/ get_capacity_lock(t) /\ Keep
        \/ get_capacity(t) /\ Keep
        \/ \E n \in Capacities : set_capacity_lock(t, n) /\ Configure(n)
        \/ set_capacity(t) /\ Keep
        \/ shrink_to_fit_pop(t) /\ Keep
        \/ set_capacity_return(t) /\ Keep
        \/ \E k \in Keys, v \in Vals, s \in Sizes : put_lock(t, k, v, s) /\ Keep
        \/ put_remove(t) /\ Keep
        \/ put_insert(t) /\ Keep
        \/ \E k \in Keys : get_lock(t, k) /\ Keep
        \/ get(t) /\ Keep

Spec == Init /\ [][Next]_vars

\* The callers of this specification never declare a size above the capacity
\* in force when their put runs.
put_fit_lock(t, key, val, size) ==
    /\ size <= capacity
    /\ put_lock(t, key, val, size)

NextFit ==
    \E t \in Threads :
        \/ get_capacity_lock(t) /\ Keep
        \/ get_capacity(t) /\ Keep
        \/ \E n \in Capacities : set_capacity_lock(t, n) /\ Configure(n)
        \/ set_capacity(t) /\ Keep
        \/ shrink_to_fit_pop(t) /\ Keep
        \/ set_capacity_return(t) /\ Keep
        \/ \E k \in Keys, v \in Vals, s \in Sizes : put_fit_lock(t, k, v, s) /\ Keep
        \/ put_remove(t) /\ Keep
        \/ put_insert(t) /\ Keep
        \/ \E k \in Keys : get_lock(t, k) /\ Keep
        \/ get(t) /\ Keep

SpecFit == Init /\ [][NextFit]_vars

\* ------------------------------------------------- callers that wait
\* The arguments the callers of SpecLive use.
LiveKeys == {"A", "B"}
LiveVals == {"v1"}
LiveSizes == {1, MaxSize}
LiveCapacities == {0, MaxCapacity}

\* A thread calls one of the four methods and reaches self.0.lock().
Invoke(t) ==
    /\ pc[t] = "idle"
    /\ t \notin waiting
    /\ waiting' = waiting \cup {t}
    /\ UNCHANGED <<lru, capacity, total_size, mutex, pc, call, pre, evicted, last,
                   recency, latest, configured, ffiVars, hashVars>>

\* lock() returns to a waiting thread, which goes on with its method.
Acquire(t) ==
    /\ t \in waiting
    /\ waiting' = waiting \ {t}
    /\ \/ get_capacity_lock(t) /\ UNCHANGED configured
       \/ \E n \in LiveCapacities : set_capacity_lock(t, n) /\ configured' = n
       \/ \E k \in LiveKeys, v \in LiveVals, s \in LiveSizes :
              put_lock(t, k, v, s) /\ UNCHANGED configured
       \/ \E k \in LiveKeys : get_lock(t, k) /\ UNCHANGED configured
    /\ UNCHANGED <<ffiVars, hashVars>>

\* The thread that holds the mutex runs the next statement of its method.
Run(t) ==
    /\ \/ get_capacity(t)
       \/ set_capacity(t)
       \/ shrink_to_fit_pop(t)
       \/ set_capacity_return(t)
       \/ put_remove(t)
       \/ put_insert(t)
       \/ get(t)
    /\ UNCHANGED <<configured, waiting, ffiVars, hashVars>>

NextLive == \E t \in Threads : Invoke(t) \/ Acquire(t) \/ Run(t)

\* Fair scheduling: a running thread is not stopped for ever, and a thread
\* waiting in lock() is not passed over for ever while the mutex keeps
\* becoming free.
Fairness == \A t \in Threads : WF_vars(Run(t)) /\ SF_vars(Acquire(t))

SpecLive == Init /\ [][NextLive]_vars /\ Fairness

\* ------------------------------------------------------ the C boundary
CIntMod == 2 ^ CIntBits
CIntMax == (CIntMod \div 2) - 1
CIntMin == 0 - (CIntMod \div 2)

\* `n as usize` for a c_int n: a negative n is sign-extended.
as_usize(n) == IF n < 0 THEN UsizeMod + n ELSE n

\* `u as c_int` for a usize u: the low bits, read as a signed number.
as_c_int(u) == IF u % CIntMod > CIntMax THEN (u % CIntMod) - CIntMod ELSE u % CIntMod

\* The arguments of the callers that keep to the contract of the boundary.
FfiKeys == {"A", "B"}
FfiSizes == {1, MaxSize}
FfiCapacities == {0, MaxCapacity}

\* Mutant of Arc_clone: the pointer is copied and the count is not raised.
Arc_clone_alias(n) == n

\* Arc::clone: one more strong reference.
Arc_clone(n) == n + 1

\* Mutant of Arc_into_raw: Arc::as_ptr, after which the Arc is dropped.
Arc_as_ptr(b) == {b}

\* Arc::into_raw: the Arc is consumed without being dropped; the set of
\* buffers whose Arc is dropped by the conversion is empty.
Arc_into_raw(b) == {}

\* Mutant of Drop: the CacheEntry is forgotten and g_slice_free1 is never called.
Drop_forget(S) ==
    /\ strong' = [b \in Allocations |-> IF b \in S /\ strong[b] > 0 THEN strong[b] - 1 ELSE strong[b]]
    /\ freed' = freed

\* drop of one Arc<CacheEntry> for each buffer in S: the strong count goes
\* down, and CacheEntry::drop calls g_slice_free1 when the last one is gone.
Drop(S) ==
    /\ strong' = [b \in Allocations |-> IF b \in S /\ strong[b] > 0 THEN strong[b] - 1 ELSE strong[b]]
    /\ freed' = [b \in Allocations |-> IF b \in S /\ strong[b] <= 1 THEN freed[b] + 1 ELSE freed[b]]

RECURSIVE HeldIn(_)
HeldIn(S) ==
    IF S = {} THEN 0
    ELSE LET b == CHOOSE x \in S : TRUE IN held[b] + HeldIn(S \ {b})

\* The handles the callers hold, and those a running call will return.
HandlesOut == HeldIn(Buffers) + Cardinality({t \in Threads : pend[t].entry})

\* A caller may enter a boundary function of the cache.
MayCall(t) == alive /\ ~pend[t].busy

\* _openslide_cache_get_capacity: the assert, then cache.get_capacity().
openslide_cache_get_capacity_lock(t) ==
    /\ MayCall(t)
    /\ get_capacity_lock(t)
    /\ Keep

\* `cache.get_capacity() as c_int`
openslide_cache_get_capacity(t) ==
    /\ get_capacity(t)
    /\ Keep

\* _openslide_cache_set_capacity: cache.set_capacity(capacity_in_bytes as usize)
openslide_cache_set_capacity_lock(t, capacity_in_bytes) ==
    /\ MayCall(t)
    /\ set_capacity_lock(t, as_usize(capacity_in_bytes))
    /\ Configure(as_usize(capacity_in_bytes))

openslide_cache_set_capacity(t) ==
    /\ set_capacity(t)
    /\ Keep

\* One iteration of _shrink_to_fit: the popped item is dropped at the end of
\* the loop body, and with it the cache's Arc.
openslide_cache_shrink_pop(t) ==
    /\ shrink_to_fit_pop(t)
    /\ Drop({Head(lru).entry})
    /\ UNCHANGED <<alive, given, held, pend, configured, waiting, hashVars>>

openslide_cache_set_capacity_return(t) ==
    /\ set_capacity_return(t)
    /\ Keep

\* _openslide_cache_put: val = CacheEntry { data, size }, then cache.put(key, val, size).
\* The caller hands over a buffer it has not handed over before; entry is
\* TRUE when the caller passes a non-null `entry`.
openslide_cache_put_lock(t, key, data, size_in_bytes, entry) ==
    /\ MayCall(t)
    /\ data \notin given
    /\ entry => HandlesOut < MaxHandles
    /\ put_lock(t, key, data, as_usize(size_in_bytes))
    /\ given' = given \cup {data}
    /\ pend' = [pend EXCEPT ![t] = [busy |-> TRUE, entry |-> entry, arc |-> NoVal]]
    /\ UNCHANGED <<alive, strong, held, freed, configured, waiting, hashVars>>

\* The item put removes is dropped inside the `if let`.
openslide_cache_put_remove(t) ==
    /\ put_remove(t)
    /\ Drop(IF contains(lru, call[t].key) THEN {lookup(lru, call[t].key)} ELSE {})
    /\ UNCHANGED <<alive, given, held, pend, configured, waiting, hashVars>>

\* Arc::new(val), a clone of it in the map, the Arc itself returned.
openslide_cache_put_insert(t) ==
    /\ put_insert(t)
    /\ strong' = [strong EXCEPT ![call[t].val] = Arc_clone(1)]
    /\ pend' = [pend EXCEPT ![t].arc = call[t].val]
    /\ UNCHANGED <<alive, given, held, freed, configured, waiting, hashVars>>

\* _openslide_cache_get: cache.get(&key); the caller passes a non-null `entry`.
openslide_cache_get_lock(t, key) ==
    /\ MayCall(t)
    /\ HandlesOut < MaxHandles
    /\ get_lock(t, key)
    /\ pend' = [pend EXCEPT ![t] = [busy |-> TRUE, entry |-> TRUE, arc |-> NoVal]]
    /\ UNCHANGED <<alive, given, strong, held, freed, configured, waiting, hashVars>>

\* get_refresh(key).map(|item| item.entry.clone()), under the lock.
openslide_cache_get(t) ==
    /\ get(t)
    /\ LET val == lookup(lru, call[t].key) IN
          /\ pend' = [pend EXCEPT ![t].arc = val]
          /\ strong' = IF val = NoVal THEN strong
                       ELSE [strong EXCEPT ![val] = Arc_clone(strong[val])]
    /\ UNCHANGED <<alive, given, held, freed, configured, waiting, hashVars>>

\* The end of _openslide_cache_put and _openslide_cache_get, after the lock is
\* released: ptr::write(entry, Arc::into_raw(arc)), ptr::write(entry, null) on
\* a miss, or the Arc going out of scope when put was given a null `entry`.
openslide_cache_return(t) ==
    /\ pend[t].busy
    /\ pc[t] = "idle"
    /\ LET arc == pend[t].arc IN
          IF arc = NoVal THEN UNCHANGED <<strong, held, freed>>
          ELSE IF pend[t].entry
               THEN /\ held' = [held EXCEPT ![arc] = held[arc] + 1]
                    /\ Drop(Arc_into_raw(arc))
               ELSE /\ Drop({arc})
                    /\ UNCHANGED held
    /\ pend' = [pend EXCEPT ![t] = NoPend]
    /\ UNCHANGED <<lru, capacity, total_size, mutex, pc, call, pre, evicted, last,
                   recency, latest, configured, waiting, alive, given, hashVars>>

\* _openslide_cache_entry_unref(entry) on a handle the caller holds:
\* drop(Arc::from_raw(entry)).
openslide_cache_entry_unref(b) ==
    /\ held[b] > 0
    /\ held' = [held EXCEPT ![b] = held[b] - 1]
    /\ Drop({b})
    /\ UNCHANGED <<lru, capacity, total_size, mutex, pc, call, pre, evicted, last,
                   recency, latest, configured, waiting, alive, given, pend, hashVars>>

\* _openslide_cache_destroy(cache): drop(Box::from_raw(cache)) drops the map
\* and the Arc of every resident item. The caller destroys the cache when no
\* thread is inside one of its methods.
openslide_cache_destroy ==
    /\ alive
    /\ \A t \in Threads : pc[t] = "idle"
    /\ alive' = FALSE
    /\ lru' = <<>>
    /\ Drop({lru[i].entry : i \in DOMAIN lru})
    /\ UNCHANGED <<capacity, total_size, mutex, pc, call, pre, evicted, last,
                   recency, latest, configured, waiting, given, held, pend, hashVars>>

\* The callers of FfiStep are not followed through a decode-and-cache cycle.
Unstaged == UNCHANGED stage

\* The boundary calls with keys from KS, sizes from SS and capacities from CS.
FfiStep(KS, SS, CS) ==
    \/ \E t \in Threads :
          \/ openslide_cache_get_capacity_lock(t)
          \/ openslide_cache_get_capacity(t)
          \/ \E n \in CS : openslide_cache_set_capacity_lock(t, n)
          \/ openslide_cache_set_capacity(t)
          \/ openslide_cache_shrink_pop(t) /\ Unstaged
          \/ openslide_cache_set_capacity_return(t)
          \/ \E k \in KS, b \in Buffers, n \in SS, e \in BOOLEAN :
                openslide_cache_put_lock(t, k, b, n, e) /\ Unstaged
          \/ openslide_cache_put_remove(t) /\ Unstaged
          \/ openslide_cache_put_insert(t) /\ Unstaged
          \/ \E k \in KS : openslide_cache_get_lock(t, k) /\ Unstaged
          \/ openslide_cache_get(t) /\ Unstaged
          \/ openslide_cache_return(t) /\ Unstaged
    \/ \E b \in Buffers : openslide_cache_entry_unref(b) /\ Unstaged
    \/ openslide_cache_destroy /\ Unstaged

NextFfi == FfiStep(FfiKeys, FfiSizes, FfiCapacities)

SpecFfi == Init /\ [][NextFfi]_vars

\* ---------------------------------------- callers that pass any c_int
\* The arguments of callers that also pass negative numbers.
BoundaryKeys == {"A"}
BoundarySizes == {CIntMin, 0 - 1, 1}
BoundaryCapacities == {CIntMin, 0 - 1, MaxCapacity}

\* _openslide_cache_create(capacity_in_bytes): LruCache::new(capacity_in_bytes as usize)
InitBoundary ==
    /\ lru = <<>>
    /\ capacity \in {as_usize(n) : n \in BoundaryCapacities}
    /\ total_size = 0
    /\ mutex = NoThread
    /\ pc = [t \in Threads |-> "idle"]
    /\ call = [t \in Threads |-> NoCall]
    /\ pre = NoSnapshot
    /\ evicted = <<>>
    /\ last = NoLast
    /\ recency = <<>>
    /\ latest = [k \in Keys |-> Never]
    /\ configured = capacity
    /\ waiting = {}
    /\ InitFfi
    /\ InitHash

NextBoundary == FfiStep(BoundaryKeys, BoundarySizes, BoundaryCapacities)

SpecBoundary == InitBoundary /\ [][NextBoundary]_vars

\* ------------------------------------------ workers that decode and cache
\* The tile both workers want.
RaceKey == "A"

\* Another tile, cached before the workers begin.
OtherKey == "B"

\* _openslide_cache_put(cache, key, data, size, NULL): the other tile is cached
\* and no handle is asked for.
worker_warm_lock(t, size_in_bytes) ==
    /\ \A u \in Threads : stage[u].at = "start"
    /\ openslide_cache_put_lock(t, OtherKey, OtherBuffer, size_in_bytes, FALSE)
    /\ stage' = [stage EXCEPT ![t].at = "warm"]

worker_warm_return(t) ==
    /\ stage[t].at = "warm"
    /\ openslide_cache_return(t)
    /\ stage' = [stage EXCEPT ![t].at = "start"]

\* _openslide_cache_get(cache, key, &entry) by a worker that needs the tile.
worker_get_lock(t) ==
    /\ stage[t].at = "start"
    /\ openslide_cache_get_lock(t, RaceKey)
    /\ stage' = [stage EXCEPT ![t].at = "lookup"]

worker_get(t) ==
    /\ stage[t].at = "lookup"
    /\ openslide_cache_get(t)
    /\ UNCHANGED stage

\* The get returns: on a hit the worker uses the cached tile through its
\* handle, on a miss it decodes the tile into a buffer of its own.
worker_get_return(t) ==
    /\ stage[t].at = "lookup"
    /\ openslide_cache_return(t)
    /\ stage' = [stage EXCEPT ![t] =
                    IF pend[t].arc = NoVal
                    THEN [at |-> "decoded", missed |-> TRUE, handle |-> NoVal]
                    ELSE [at |-> "using", missed |-> FALSE, handle |-> pend[t].arc]]

\* _openslide_cache_put(cache, key, data, size, &entry) with the decoded tile.
worker_put_lock(t, data, size_in_bytes) ==
    /\ stage[t].at = "decoded"
    /\ openslide_cache_put_lock(t, RaceKey, data, size_in_bytes, TRUE)
    /\ stage' = [stage EXCEPT ![t].at = "put"]

worker_put_remove(t) ==
    /\ stage[t].at \in {"warm", "put"}
    /\ openslide_cache_put_remove(t)
    /\ UNCHANGED stage

worker_shrink_pop(t) ==
    /\ stage[t].at \in {"warm", "put"}
    /\ openslide_cache_shrink_pop(t)
    /\ UNCHANGED stage

worker_put_insert(t) ==
    /\ stage[t].at \in {"warm", "put"}
    /\ openslide_cache_put_insert(t)
    /\ UNCHANGED stage

\* The put returns the handle of the worker's own tile.
worker_put_return(t) ==
    /\ stage[t].at = "put"
    /\ openslide_cache_return(t)
    /\ stage' = [stage EXCEPT ![t] = [at |-> "using", missed |-> TRUE, handle |-> pend[t].arc]]

\* _openslide_cache_entry_unref(entry) when the worker is done with the tile.
worker_unref(t) ==
    /\ stage[t].at = "using"
    /\ openslide_cache_entry_unref(stage[t].handle)
    /\ stage' = [stage EXCEPT ![t].at = "done"]

\* _openslide_cache_destroy(cache) once every worker is done.
workers_destroy ==
    /\ \A t \in Threads : stage[t].at = "done"
    /\ openslide_cache_destroy
    /\ UNCHANGED stage

NextRace ==
    \/ \E t \in Threads :
          \/ \E n \in FfiSizes : worker_warm_lock(t, n)
          \/ worker_warm_return(t)
          \/ worker_get_lock(t)
          \/ worker_get(t)
          \/ worker_get_return(t)
          \/ \E b \in Buffers, n \in FfiSizes : worker_put_lock(t, b, n)
          \/ worker_put_remove(t)
          \/ worker_shrink_pop(t)
          \/ worker_put_insert(t)
          \/ worker_put_return(t)
          \/ worker_unref(t)
    \/ workers_destroy

SpecRace == Init /\ [][NextRace]_vars

\* Both workers missed on the tile and the puts of both have returned.
BothPut == \A t \in Threads : stage[t].missed /\ stage[t].at \in {"using", "done"}

\* The references to buffer b: the map's, the Arcs that running calls hold,
\* and the handles of the callers.
CacheRefs(b) == Cardinality({i \in DOMAIN lru : lru[i].entry = b})
PendRefs(b) == Cardinality({t \in Threads : pend[t].arc = b})
Refs(b) == CacheRefs(b) + PendRefs(b) + held[b]

\* b is the `val` of a put that has not yet wrapped it in an Arc.
InPut(b) == \E t \in Threads : pc[t] \in {"put", "shrink"} /\ call[t].op = "put" /\ call[t].val = b

\* -------------------------------------------------------------- QuickHash1
\* hasher: None
NoHasher == [some |-> FALSE, fed |-> <<>>]
\* A null pointer argument.
NULL == "NULL"
\* The handle returned by _openslide_hash_quickhash1_create.
HashHandle == "hash"
HashHandles == {NULL, HashHandle}

\* The final '\0' of a C string.
NUL == "0"
\* The `data` buffers and the C strings the callers pass.
NullData == [null |-> TRUE, bytes |-> <<>>]
DataAt(bytes) == [null |-> FALSE, bytes |-> bytes]
DataArgs == {NullData, DataAt(<<"a">>), DataAt(<<"b", "a">>)}
StringArgs == {NullData, DataAt(<<>>), DataAt(<<"a">>)}
DataLens == {0 - 1, 0, 1, 2}

\* The file system: one file and its content, and a name with no file.
Filenames == {"file", "missing"}
FileContent == <<"a", "b", "a">>
Offsets == {0 - 1, 0, 1, 4}
Lengths == {0 - 1, 0, 2}

\* FileSlice::new and its reads up to end of file, as std::io::copy makes
\* them: the bytes of the file from `offset`, at most `remaining` of them.
FileSlice(content, offset, length) ==
    LET remaining == IF length < 0 THEN UsizeMod - 1 ELSE length
        available == IF offset >= Len(content) THEN 0 ELSE Len(content) - offset
        n == IF remaining < available THEN remaining ELSE available
    IN  SubSeq(content, offset + 1, offset + n)

\* Mutant of update: a missing Sha256 is made anew for the data.
update_revive(h, data) == [some |-> TRUE, fed |-> h.fed \o data]

\* QuickHash1::update: the data goes to the Sha256, if there is one.
update(h, data) == IF h.some THEN [h EXCEPT !.fed = h.fed \o data] ELSE h

\* Mutant of update_from_file_slice: the error of File::open is swallowed.
update_from_file_slice_swallow(h, filename, offset, length) ==
    IF ~h.some THEN [hasher |-> h, result |-> "Ok", opened |-> FALSE]
    ELSE IF filename = "missing" THEN [hasher |-> h, result |-> "Ok", opened |-> TRUE]
    ELSE [hasher |-> [h EXCEPT !.fed = h.fed \o FileSlice(FileContent, offset, length)],
          result |-> "Ok", opened |-> TRUE]

\* QuickHash1::update_from_file_slice: Ok(()) without a hasher; else the
\* file is opened (`?` returns its error) and the slice is copied into the hasher.
update_from_file_slice(h, filename, offset, length) ==
    IF ~h.some THEN [hasher |-> h, result |-> "Ok", opened |-> FALSE]
    ELSE IF filename = "missing" THEN [hasher |-> h, result |-> "NOENT", opened |-> TRUE]
    ELSE [hasher |-> [h EXCEPT !.fed = h.fed \o FileSlice(FileContent, offset, length)],
          result |-> "Ok", opened |-> TRUE]

\* The bytes a call adds to the digest of an active hash.
Fed(data) == IF hasher.some THEN absorbed \o data ELSE absorbed

\* Mutant of get_string: the hasher itself is finalized and is gone afterwards.
get_string_take(h) ==
    [some |-> h.some, string |-> IF h.some THEN <<"sha256">> \o h.fed ELSE <<>>,
     hasher |-> NoHasher]

\* QuickHash1::get_string: None without a hasher, else the clone of the
\* hasher is finalized and printed in hexadecimal. The string stands for the
\* digest of the bytes fed: the tag "sha256" followed by those bytes.
get_string(h) ==
    [some |-> h.some, string |-> IF h.some THEN <<"sha256">> \o h.fed ELSE <<>>,
     hasher |-> h]

\* What a boundary call leaves behind when it ends.
Outcome(o, h, r, e, c) == [op |-> o, null |-> h = NULL, ret |-> r, error |-> e, changed |-> c]

\* A panic inside an extern "C" function ends the process.
Running == outcome.error # "panic"

\* A caller may pass the handle: null, or the hash as long as it is not destroyed.
MayPass(hash) == Running /\ (hash = HashHandle => hash_alive)

\* The Sha256 can take n more bytes.
Room(n) == ~hasher.some \/ Len(hasher.fed) + n <= MaxAbsorbed

\* _openslide_hash_data(hash, data, datalen)
openslide_hash_data(hash, data, datalen) ==
    /\ MayPass(hash)
    /\ datalen <= Len(data.bytes)
    /\ IF hash # NULL /\ ~data.null /\ datalen > 0
       THEN /\ Room(datalen)
            /\ hasher' = update(hasher, SubSeq(data.bytes, 1, datalen))
            /\ absorbed' = Fed(SubSeq(data.bytes, 1, datalen))
            /\ outcome' = Outcome("hash_data", hash, "void", "none", hasher' # hasher)
       ELSE /\ hasher' = hasher
            /\ absorbed' = absorbed
            /\ outcome' = Outcome("hash_data", hash, "void", "none", FALSE)
    /\ request' = NoRequest
    /\ UNCHANGED <<hash_alive, checksum, engineVars, ffiVars, slice>>

\* _openslide_hash_string(hash, string): the string and its final '\0', or
\* the empty string for a null `string`.
openslide_hash_string(hash, string) ==
    /\ MayPass(hash)
    /\ IF hash # NULL
       THEN LET data == IF ~string.null THEN string.bytes \o <<NUL>> ELSE <<NUL>> IN
            /\ Room(Len(data))
            /\ hasher' = update(hasher, data)
            /\ absorbed' = Fed(data)
            /\ outcome' = Outcome("hash_string", hash, "void", "none", hasher' # hasher)
       ELSE /\ hasher' = hasher
            /\ absorbed' = absorbed
            /\ outcome' = Outcome("hash_string", hash, "void", "none", FALSE)
    /\ request' = NoRequest
    /\ UNCHANGED <<hash_alive, checksum, engineVars, ffiVars, slice>>

\* _openslide_hash_file_part(hash, filename, offset, size, err), and
\* _openslide_hash_file for offset 0 and size -1.
openslide_hash_file_part(hash, filename, offset, size) ==
    /\ MayPass(hash)
    /\ IF hash = NULL \/ offset < 0
       THEN /\ hasher' = hasher
            /\ absorbed' = absorbed
            /\ request' = [filename |-> filename, negative |-> offset < 0, opened |-> FALSE]
            /\ outcome' = Outcome("hash_file_part", hash, "false", "INVAL", FALSE)
       ELSE LET done == update_from_file_slice(hasher, filename, offset, size) IN
            /\ Room(Len(done.hasher.fed) - Len(hasher.fed))
            /\ hasher' = done.hasher
            /\ absorbed' = IF done.result = "Ok" /\ filename # "missing"
                           THEN Fed(FileSlice(FileContent, offset, size)) ELSE absorbed
            /\ request' = [filename |-> filename, negative |-> FALSE, opened |-> done.opened]
            /\ outcome' = Outcome("hash_file_part", hash,
                                  IF done.result = "Ok" THEN "true" ELSE "false",
                                  IF done.result = "Ok" THEN "none" ELSE done.result,
                                  hasher' # hasher)
    /\ UNCHANGED <<hash_alive, checksum, engineVars, ffiVars, slice>>

\* _openslide_hash_disable(hash): hash.hasher.take()
openslide_hash_disable(hash) ==
    /\ MayPass(hash)
    /\ hasher' = IF hash # NULL THEN NoHasher ELSE hasher
    /\ absorbed' = IF hash # NULL THEN <<>> ELSE absorbed
    /\ outcome' = Outcome("hash_disable", hash, "void", "none", hasher' # hasher)
    /\ request' = NoRequest
    /\ UNCHANGED <<hash_alive, checksum, engineVars, ffiVars, slice>>

\* _openslide_hash_get_string(hash): null for a null hash and for a disabled
\* one, else the string, written to hash.checksum.
openslide_hash_get_string(hash) ==
    /\ MayPass(hash)
    /\ IF hash = NULL
       THEN /\ UNCHANGED <<hasher, checksum>>
            /\ outcome' = Outcome("hash_get_string", hash, "null", "none", FALSE)
       ELSE LET result == get_string(hasher) IN
            /\ hasher' = result.hasher
            /\ checksum' = IF result.some THEN result.string ELSE checksum
            /\ outcome' = Outcome("hash_get_string", hash,
                                  IF result.some THEN "string" ELSE "null", "none",
                                  <<hasher', checksum'>> # <<hasher, checksum>>)
    /\ request' = NoRequest
    /\ UNCHANGED <<hash_alive, absorbed, engineVars, ffiVars, slice>>

\* _openslide_hash_destroy(hash): drop(Box::from_raw(hash)), nothing for null.
openslide_hash_destroy(hash) ==
    /\ MayPass(hash)
    /\ hash_alive' = IF hash # NULL THEN FALSE ELSE hash_alive
    /\ outcome' = Outcome("hash_destroy", hash, "void", "none", hash_alive' # hash_alive)
    /\ request' = NoRequest
    /\ UNCHANGED <<hasher, checksum, absorbed, engineVars, ffiVars, slice>>

\* The boundary functions of the cache that start with assert!(!cache.is_null()).
CacheOps == {"cache_get_capacity", "cache_set_capacity", "cache_put", "cache_get"}

\* One of them called with a null `cache`: the assert panics.
openslide_cache_null(op) ==
    /\ Running
    /\ outcome' = Outcome(op, NULL, "none", "panic", FALSE)
    /\ request' = NoRequest
    /\ UNCHANGED <<hash_alive, hasher, checksum, absorbed, engineVars, ffiVars, slice>>

\* _openslide_cache_destroy(NULL) and _openslide_cache_entry_unref(NULL): nothing.
openslide_cache_noop(op) ==
    /\ Running
    /\ outcome' = Outcome(op, NULL, "void", "none", FALSE)
    /\ request' = NoRequest
    /\ UNCHANGED <<hash_alive, hasher, checksum, absorbed, engineVars, ffiVars, slice>>

NextHash ==
    \/ \E hash \in HashHandles, data \in DataArgs, n \in DataLens : openslide_hash_data(hash, data, n)
    \/ \E hash \in HashHandles, string \in StringArgs : openslide_hash_string(hash, string)
    \/ \E hash \in HashHandles, f \in Filenames, o \in Offsets, n \in Lengths :
          openslide_hash_file_part(hash, f, o, n)
    \/ \E hash \in HashHandles : openslide_hash_disable(hash)
    \/ \E hash \in HashHandles : openslide_hash_get_string(hash)
    \/ \E hash \in HashHandles : openslide_hash_destroy(hash)
    \/ \E op \in CacheOps : openslide_cache_null(op)
    \/ \E op \in {"cache_destroy", "cache_entry_unref"} : openslide_cache_noop(op)

\* One hash, next to a cache that is created and not used.
InitOfHash == Init /\ capacity = 0

SpecHash == InitOfHash /\ [][NextHash]_vars

\* The boundary calls that take null as a no-op.
NullIsNoop == {"hash_destroy", "cache_destroy", "cache_entry_unref"}

\* --------------------------------------------------------------- FileSlice
\* The arguments of FileSlice::new and the buffers of read.
SliceOffsets == 0..(Len(FileContent) + 1)
SliceLengths == (0 - 1)..(Len(FileContent) + 1)
BufLens == 0..MaxBuf

\* Mutant of toread: the buffer is filled whatever is left of the slice.
toread_uncapped(remaining, buflen) == buflen

\* std::cmp::min(self.remaining, buf.len())
toread(remaining, buflen) == IF remaining < buflen THEN remaining ELSE buflen

\* The bytes of the file behind the cursor.
Available(pos) == IF pos >= Len(FileContent) THEN 0 ELSE Len(FileContent) - pos

\* FileSlice::new(file, offset, length): `remaining` is usize::MAX for a
\* negative length, and the file is positioned at `offset`.
FileSlice_new(offset, length) ==
    /\ ~slice.open
    /\ slice' = [NoSlice EXCEPT !.open = TRUE, !.offset = offset, !.length = length,
                                !.pos = offset,
                                !.remaining = IF length < 0 THEN UsizeMod - 1 ELSE length]
    /\ UNCHANGED <<hash_alive, hasher, checksum, outcome, absorbed, request, engineVars, ffiVars>>

\* FileSlice::read(buf): the file reads into buf[..toread]; it returns some
\* of the bytes behind the cursor, at least one when there are any and toread
\* is not 0, and `remaining` goes down by what was read.
FileSlice_read(buflen) ==
    /\ slice.open
    /\ LET want == toread(slice.remaining, buflen)
           most == IF Available(slice.pos) < want THEN Available(slice.pos) ELSE want IN
       \E nread \in (IF most = 0 THEN {0} ELSE 1..most) :
          slice' = [slice EXCEPT !.pos = slice.pos + nread,
                                 !.remaining = USub(slice.remaining, nread),
                                 !.yielded = slice.yielded \o
                                     SubSeq(FileContent, slice.pos + 1, slice.pos + nread),
                                 !.buflen = buflen,
                                 !.before = slice.remaining,
                                 !.nread = nread]
    /\ UNCHANGED <<hash_alive, hasher, checksum, outcome, absorbed, request, engineVars, ffiVars>>

\* The FileSlice goes out of scope.
FileSlice_drop ==
    /\ slice.open
    /\ slice' = NoSlice
    /\ UNCHANGED <<hash_alive, hasher, checksum, outcome, absorbed, request, engineVars, ffiVars>>

NextSlice ==
    \/ \E offset \in SliceOffsets, length \in SliceLengths : FileSlice_new(offset, length)
    \/ \E buflen \in BufLens : FileSlice_read(buflen)
    \/ FileSlice_drop

SpecSlice == InitOfHash /\ [][NextSlice]_vars

\* ------------------------------------------- the methods, run undisturbed
\* The same code read as functions of the cache c = [lru, capacity, total_size]:
\* what a method computes when nothing else runs between its statements.

RECURSIVE shrink_to_fit(_, _)
shrink_to_fit(c, res) ==
    IF UAdd(c.total_size, res) > c.capacity /\ c.lru # <<>>
    THEN shrink_to_fit([c EXCEPT !.lru = pop_front(c.lru).rest,
                                 !.total_size = USub(@, pop_front(c.lru).item.size)], res)
    ELSE c

LruCache_get_capacity(c) == [cache |-> c, ret |-> NoVal, ret_capacity |-> c.capacity]

LruCache_set_capacity(c, capacity_in_bytes) ==
    [cache |-> shrink_to_fit([c EXCEPT !.capacity = capacity_in_bytes], 0),
     ret |-> NoVal, ret_capacity |-> 0]

LruCache_put(c, key, val, size) ==
    LET removed == IF contains(c.lru, key)
                   THEN [c EXCEPT !.lru = remove(c.lru, key),
                                  !.total_size = USub(@, ItemOf(c.lru, key).size)]
                   ELSE c
        shrunk == shrink_to_fit(removed, size)
    IN  [cache |-> [shrunk EXCEPT !.lru = insert(shrunk.lru, CacheItem(key, val, size)),
                                  !.total_size = UAdd(@, size)],
         ret |-> val, ret_capacity |-> 0]

LruCache_get(c, key) ==
    [cache |-> [c EXCEPT !.lru = get_refresh(c.lru, key)],
     ret |-> lookup(c.lru, key), ret_capacity |-> 0]

\* The method `last` names, run undisturbed from the state it started in.
Undisturbed ==
    CASE last.op = "get_capacity" -> LruCache_get_capacity(last.pre)
      [] last.op = "set_capacity" -> LruCache_set_capacity(last.pre, last.capacity_in_bytes)
      [] last.op = "put" -> LruCache_put(last.pre, last.key, last.val, last.size)
      [] last.op = "get" -> LruCache_get(last.pre, last.key)

\* ----------------------------------------------------------- vocabulary
\* No method is in progress.
Quiescent == \A t \in Threads : pc[t] = "idle"

\* A thread is between the statements of a method.
InMethod(t) == pc[t] # "idle"

EvictedKeys(ev) == {ev[i].key : i \in DOMAIN ev}

\* The items stored under k (a map has at most one).
EntriesFor(l, k) == {i \in DOMAIN l : l[i].key = k}

TypeOK ==
    /\ capacity \in 0..(UsizeMod - 1)
    /\ total_size \in 0..(UsizeMod - 1)
    /\ mutex \in Threads \cup {NoThread}
    /\ \A i \in DOMAIN lru : lru[i].key \in Keys /\ lru[i].entry \in Vals

\* ----------------------------------------------------------------- claims

\* C1. Capacity invariant: when no put declares a size above the capacity in
\* force when it runs (SpecFit), total_size <= capacity after every operation,
\* whatever get and set_capacity calls are interleaved.
CapacityInvariant == Quiescent => total_size <= capacity

\* A put that had to evict to fit has returned and the cache is exactly full.
CapacityInvariantWitness ==
    /\ Quiescent
    /\ last.op = "put"
    /\ last.evicted # <<>>
    /\ Len(lru) >= 2
    /\ total_size = capacity

\* C2. Accounting invariant: whenever no operation is in progress, total_size
\* is exactly the sum of the declared sizes of the resident entries.
AccountingInvariant == Quiescent => total_size = SumSizes(lru)

\* A put has replaced an entry by one of another size and evicted as well.
AccountingInvariantWitness ==
    /\ Quiescent
    /\ last.op = "put"
    /\ contains(last.pre.lru, last.key)
    /\ ItemOf(last.pre.lru, last.key).size # last.size
    /\ last.evicted # <<>>
    /\ total_size > 0

\* C3. Atomicity: a thread between the statements of a method holds the mutex,
\* so at most one thread is inside a method; and every method that returns
\* leaves the cache, and returns the result, that the method run undisturbed
\* from the state it locked would: executions are sequences of whole methods.
Atomicity ==
    /\ \A t \in Threads : InMethod(t) => mutex = t
    /\ \A t, u \in Threads : InMethod(t) /\ InMethod(u) => t = u
    /\ (\A t \in Threads : ~InMethod(t)) => mutex = NoThread
    /\ last.op # "none" =>
          /\ Snapshot = Undisturbed.cache
          /\ last.ret = Undisturbed.ret
          /\ last.ret_capacity = Undisturbed.ret_capacity

\* A put is part-way: the key was removed for replacement and the eviction loop
\* has popped an entry and will pop another; the other thread is kept out.
AtomicityWitness ==
    \E t \in Threads :
        /\ pc[t] = "shrink"
        /\ call[t].op = "put"
        /\ contains(pre.lru, call[t].key)
        /\ ~contains(lru, call[t].key)
        /\ evicted # <<>>
        /\ shrink_cond(t)
        /\ lru # <<>>
        /\ \A u \in Threads \ {t} : pc[u] = "idle"

\* C4. No phantom hits: get(k) returns the value of the most recent put(k) when
\* that entry has not been evicted since, and not-found when k was never put or
\* was evicted and not put again; a value is returned only for a resident key.
NoPhantomHits ==
    last.op = "get" =>
        /\ last.ret = (IF latest[last.key] \in Vals THEN latest[last.key] ELSE NoVal)
        /\ last.ret # NoVal => contains(lru, last.key)
        /\ last.ret # NoVal => contains(last.pre.lru, last.key)

\* A get has missed on a key that was put earlier and evicted since.
NoPhantomHitsWitness ==
    /\ last.op = "get"
    /\ latest[last.key] = Evicted
    /\ last.ret = NoVal
    /\ lru # <<>>

\* C5. Eviction order: the entries a put or set_capacity evicts are a prefix of
\* the recency order it found (for put, after removing the entry it replaces),
\* the rest stays in order, and each victim is the least recently put-or-hit
\* resident key at the moment it is popped.
EvictionOrder ==
    /\ last.op \in {"put", "set_capacity"} =>
          /\ IsPrefix(last.evicted, remove(last.pre.lru, last.key))
          /\ last.evicted \o remove(lru, last.key) = remove(last.pre.lru, last.key)
    /\ \A t \in Threads : pc[t] = "shrink" => KeysOf(lru) = recency

\* Capacity 2; A and B of size 1 resident in that order; put C of size 1
\* evicted A and left B, C.
EvictionOrderWitness ==
    /\ last.op = "put"
    /\ last.pre.capacity = 2
    /\ KeysOf(last.pre.lru) = <<"A", "B">>
    /\ \A i \in DOMAIN last.pre.lru : last.pre.lru[i].size = 1
    /\ last.key = "C"
    /\ last.size = 1
    /\ KeysOf(last.evicted) = <<"A">>
    /\ KeysOf(lru) = <<"B", "C">>

\* C6. Recency refresh: a get that hits k moves k's entry to the back and keeps
\* the order of the others; and the cache's order is always the order of the
\* last put-or-hit of the resident keys, so an entry not accessed since the hit
\* stays in front of k and is popped before k.
RecencyRefresh ==
    /\ (last.op = "get" /\ contains(last.pre.lru, last.key)) =>
          /\ lru[Len(lru)] = ItemOf(last.pre.lru, last.key)
          /\ remove(lru, last.key) = remove(last.pre.lru, last.key)
          /\ Len(lru) = Len(last.pre.lru)
    /\ Quiescent => KeysOf(lru) = recency

\* A, B resident in that order; get(A) hit and left B, A.
RecencyRefreshWitness ==
    /\ last.op = "get"
    /\ last.key = "A"
    /\ KeysOf(last.pre.lru) = <<"A", "B">>
    /\ last.ret # NoVal
    /\ KeysOf(lru) = <<"B", "A">>

\* C7. Replacement: after a put on a key that had a resident entry there is
\* exactly one entry for the key, it is the new one and it is the most recently
\* used, total_size counts the new size and not the old one, and a get would
\* return the new value.
ReplacementSemantics ==
    (last.op = "put" /\ contains(last.pre.lru, last.key)) =>
        /\ Cardinality(EntriesFor(lru, last.key)) = 1
        /\ lru[Len(lru)] = CacheItem(last.key, last.val, last.size)
        /\ total_size = SumSizes(remove(lru, last.key)) + last.size
        /\ total_size = last.pre.total_size - ItemOf(last.pre.lru, last.key).size
                          - SumSizes(last.evicted) + last.size
        /\ lookup(lru, last.key) = last.val
        /\ last.ret = last.val

\* A put has replaced an entry of another value and another size while a
\* second key stayed resident.
ReplacementSemanticsWitness ==
    /\ last.op = "put"
    /\ contains(last.pre.lru, last.key)
    /\ ItemOf(last.pre.lru, last.key).entry # last.val
    /\ ItemOf(last.pre.lru, last.key).size > last.size
    /\ last.size > 0
    /\ Len(lru) >= 2

\* C8. Capacity shrink: when set_capacity(n) returns, capacity = n and
\* total_size <= n; what it evicted is the front of the old order and is no
\* longer resident (a get misses it), and no key is resident that was not
\* resident before: raising the capacity brings nothing back.
CapacityShrink ==
    last.op = "set_capacity" =>
        /\ capacity = last.capacity_in_bytes
        /\ total_size <= last.capacity_in_bytes
        /\ last.evicted \o lru = last.pre.lru
        /\ \A k \in EvictedKeys(last.evicted) :
              ~contains(lru, k) /\ lookup(lru, k) = NoVal /\ latest[k] = Evicted
        /\ \A k \in Keys : latest[k] \in {Never, Evicted} => ~contains(lru, k)

\* set_capacity lowered the capacity, evicted an entry and kept another.
CapacityShrinkWitness ==
    /\ last.op = "set_capacity"
    /\ last.capacity_in_bytes < last.pre.capacity
    /\ last.evicted # <<>>
    /\ lru # <<>>
    /\ total_size > 0

\* C9. Setting the capacity to 0 empties the cache, whatever was resident
\* (entries of declared size 0 included).
ZeroCapacityEmpties ==
    (last.op = "set_capacity" /\ last.capacity_in_bytes = 0) => lru = <<>>

\* C10. Oversized single entry: a put whose size exceeds the capacity returns
\* its value, has evicted every other resident entry, leaves the new entry as
\* the only one, retrievable by get, with total_size > capacity.
OversizedEntry ==
    (last.op = "put" /\ last.size > last.pre.capacity) =>
        /\ last.ret = last.val
        /\ last.evicted = remove(last.pre.lru, last.key)
        /\ lru = <<CacheItem(last.key, last.val, last.size)>>
        /\ lookup(lru, last.key) = last.val
        /\ total_size = last.size
        /\ total_size > capacity

\* An oversized put of a new key has emptied a cache that held two entries.
OversizedEntryWitness ==
    /\ last.op = "put"
    /\ last.size > last.pre.capacity
    /\ ~contains(last.pre.lru, last.key)
    /\ Len(last.pre.lru) >= 2
    /\ Len(last.evicted) >= 2

\* C11. Soft capacity invariant: after any operation, total_size > capacity
\* only when exactly one entry is resident and its declared size alone exceeds
\* the capacity; set_capacity never returns with total_size above the new
\* capacity.
SoftCapacityInvariant ==
    /\ (Quiescent /\ total_size > capacity) =>
          /\ Len(lru) = 1
          /\ lru[1].size > capacity
    /\ last.op = "set_capacity" => total_size <= capacity

\* An oversized put has returned: one entry, larger than the capacity, after
\* the entries found were evicted.
SoftCapacityInvariantWitness ==
    /\ Quiescent
    /\ last.op = "put"
    /\ last.evicted # <<>>
    /\ total_size > capacity
    /\ capacity > 0

\* C12. put always inserts: when put(key, value, size) returns, key is resident
\* with that value and size as the most recently used entry, and the value
\* returned is the one a get of the key reads.
PutAlwaysInserts ==
    last.op = "put" =>
        /\ lru # <<>>
        /\ lru[Len(lru)] = CacheItem(last.key, last.val, last.size)
        /\ Cardinality(EntriesFor(lru, last.key)) = 1
        /\ last.ret = last.val
        /\ last.ret = lookup(lru, last.key)
        /\ LruCache_get(Snapshot, last.key).ret = last.ret

\* A put of size 0 into a cache of capacity 0 that held an entry.
PutAlwaysInsertsWitness ==
    /\ last.op = "put"
    /\ last.size = 0
    /\ last.pre.capacity = 0
    /\ last.pre.lru # <<>>
    /\ ~contains(last.pre.lru, last.key)
    /\ Len(lru) >= 2

\* C13. Frame of get: a miss changes nothing; a hit changes only the order
\* (the set of resident items, total_size and capacity stay); get never evicts.
FrameOfGet ==
    last.op = "get" =>
        /\ capacity = last.pre.capacity
        /\ total_size = last.pre.total_size
        /\ last.evicted = <<>>
        /\ {lru[i] : i \in DOMAIN lru} = {last.pre.lru[i] : i \in DOMAIN last.pre.lru}
        /\ Len(lru) = Len(last.pre.lru)
        /\ last.ret = NoVal => lru = last.pre.lru

\* A get hit the least recently used of three entries in an overfull cache
\* (capacity lowered to what two size-0 entries and one more allow).
FrameOfGetWitness ==
    /\ last.op = "get"
    /\ last.ret # NoVal
    /\ Len(lru) = 3
    /\ lru # last.pre.lru
    /\ total_size = capacity

\* C17. Termination of the eviction loop: a put or set_capacity pops at most
\* the entries resident when it started (every pop shortens the map, what was
\* popped and what is left add up to what was found), and with an empty map
\* the loop is left even when the target inequality cannot be met.
ShrinkTerminates ==
    /\ \A t \in Threads : pc[t] = "shrink" =>
          /\ Len(evicted) + Len(lru) = Len(remove(pre.lru, call[t].key))
          /\ lru = <<>> => shrink_to_fit_exit(t)
          /\ (call[t].op = "put" /\ lru = <<>>) => ENABLED put_insert(t)
          /\ (call[t].op = "set_capacity" /\ lru = <<>>) => ENABLED set_capacity_return(t)
    /\ last.op \in {"put", "set_capacity"} => Len(last.evicted) <= Len(last.pre.lru)

\* The loop of an oversized put has emptied a map of two entries and its
\* condition still holds.
ShrinkTerminatesWitness ==
    \E t \in Threads :
        /\ pc[t] = "shrink"
        /\ call[t].op = "put"
        /\ lru = <<>>
        /\ Len(evicted) = 2
        /\ shrink_cond(t)

\* C14. get_capacity returns the capacity given to new or to the latest
\* set_capacity and changes nothing; put and get leave the capacity as it is,
\* also when an oversized entry is admitted.
GetCapacityFrame ==
    /\ last.op = "get_capacity" =>
          /\ last.ret_capacity = configured
          /\ Snapshot = last.pre
    /\ last.op \in {"put", "get"} => capacity = last.pre.capacity
    /\ Quiescent => capacity = configured

\* get_capacity has returned while an oversized entry is resident.
GetCapacityFrameWitness ==
    /\ last.op = "get_capacity"
    /\ last.ret_capacity > 0
    /\ total_size > last.ret_capacity
    /\ lru # <<>>

NoUseAfterRelease ==
    \A b \in Buffers :
        (held[b] > 0 \/ PendRefs(b) > 0 \/ CacheRefs(b) > 0) => freed[b] = 0

\* The cache was destroyed while a handle is still held: the buffer of the
\* handle has only the callers' references left and is not freed, the other
\* buffer is.
NoUseAfterReleaseWitness ==
    /\ ~alive
    /\ \E b, c \in Buffers :
          /\ held[b] > 0
          /\ freed[b] = 0
          /\ freed[c] = 1
          /\ strong[b] = held[b]

\* C16. Exactly-once release: no buffer is freed twice; the strong count of a
\* buffer is the number of its references (the cache's, those of running
\* calls, the callers' handles); and a buffer handed to put is freed exactly
\* when it has no reference left. So once the cache is destroyed and every
\* handle is released every buffer ever put has been freed once, and a buffer
\* put without a handle is freed as soon as its entry leaves the cache.
ExactlyOnceRelease ==
    \A b \in Buffers :
        /\ freed[b] <= 1
        /\ strong[b] = Refs(b)
        /\ freed[b] = 1 <=> (b \in given /\ Refs(b) = 0 /\ ~InPut(b))
        /\ (~alive /\ HeldIn(Buffers) = 0 /\ (\A t \in Threads : ~pend[t].busy) /\ b \in given)
              => freed[b] = 1

\* Every buffer was put and is freed; one was freed by the destruction of the
\* cache, the other one before it by the release of its last handle.
ExactlyOnceReleaseWitness ==
    /\ ~alive
    /\ given = Buffers
    /\ \A b \in Buffers : freed[b] = 1 /\ held[b] = 0
    /\ \A t \in Threads : ~pend[t].busy

\* C19. Negative arguments are rejected at the boundary: whatever c_int the
\* callers pass to create, set_capacity and put, the capacity of the engine,
\* the capacity and the size a running method was called with, and the size of
\* every resident entry are non-negative c_int values.
NegativeRejected ==
    /\ capacity \in 0..CIntMax
    /\ \A i \in DOMAIN lru : lru[i].size \in 0..CIntMax
    /\ \A t \in Threads : call[t].size \in 0..CIntMax /\ call[t].capacity_in_bytes \in 0..CIntMax

\* C20. Null handles are caller errors: a boundary call that was given a null
\* cache or hash handle, other than destroy and entry_unref, has reported an
\* error to its caller; destroy and entry_unref with null change nothing.
NullHandleIsError ==
    /\ (outcome.null /\ outcome.op \notin NullIsNoop /\ outcome.op # "none") => outcome.error # "none"
    /\ (outcome.null /\ outcome.op \in NullIsNoop) => (outcome.error = "none" /\ ~outcome.changed)

\* C21. A disabled digest is terminal: when _openslide_hash_disable has
\* returned for a hash, the hash has no hasher; a step taken without a hasher
\* leaves the hash without one and leaves its fields as they are (every update
\* and file update is a no-op that reports no error), and a get_string without
\* a hasher returns null, also when a string was returned before the disable.
DisabledIsTerminal ==
    /\ []((outcome.op = "hash_disable" /\ ~outcome.null) => ~hasher.some)
    /\ [][~hasher.some =>
            /\ hasher' = hasher
            /\ checksum' = checksum
            /\ outcome'.op \in {"hash_data", "hash_string", "hash_file_part"} =>
                  (~outcome'.changed /\ (~outcome'.null => outcome'.error \in {"none", "INVAL"}))
            /\ (outcome'.op = "hash_get_string" /\ ~outcome'.null) => outcome'.ret = "null"]_vars

\* A hash that had absorbed data and returned a string was disabled, and the
\* get_string after it returned null.
DisabledIsTerminalWitness ==
    /\ ~hasher.some
    /\ Len(checksum) > 2
    /\ outcome.op = "hash_get_string"
    /\ ~outcome.null
    /\ outcome.ret = "null"

\* C23. get_string is non-destructive and cumulative: a string returned for an
\* active hash is the digest of all bytes fed so far by _openslide_hash_data,
\* _openslide_hash_string and _openslide_hash_file_part, in call order; a
\* get_string step leaves the hasher as it is, so that two get_string calls in
\* a row return the same, and later updates continue the same digest.
FinalizeCumulative ==
    /\ []((outcome.op = "hash_get_string" /\ outcome.ret = "string") =>
              (hasher.some /\ checksum = <<"sha256">> \o absorbed))
    /\ [](hasher.some => hasher.fed = absorbed)
    /\ [][outcome'.op = "hash_get_string" => (hasher' = hasher /\ absorbed' = absorbed)]_vars
    /\ [][(outcome.op = "hash_get_string" /\ outcome'.op = "hash_get_string"
             /\ ~outcome.null /\ ~outcome'.null) =>
                (outcome'.ret = outcome.ret /\ checksum' = checksum)]_vars

\* A string was returned for a hash that was fed a C string and more bytes
\* after an earlier string had been returned for fewer bytes.
FinalizeCumulativeWitness ==
    /\ outcome.op = "hash_get_string"
    /\ outcome.ret = "string"
    /\ outcome.changed
    /\ Len(absorbed) = MaxAbsorbed
    /\ \E i \in DOMAIN absorbed : absorbed[i] = NUL

\* C24. Outcomes of a file update: with a null hash or a negative offset
\* _openslide_hash_file_part reports INVAL and neither opens the file nor
\* touches the digest; for an active digest and a path that cannot be opened
\* it returns false with the I/O error and absorbs nothing; for a disabled
\* digest it returns true without opening the file, whatever the path, so the
\* I/O failure and the disabled case never look alike.
FileUpdateOutcomes ==
    outcome.op = "hash_file_part" =>
        /\ (outcome.null \/ request.negative) =>
              /\ outcome.ret = "false"
              /\ outcome.error = "INVAL"
              /\ ~request.opened
              /\ ~outcome.changed
        /\ (~outcome.null /\ ~request.negative /\ hasher.some /\ request.filename = "missing") =>
              /\ outcome.ret = "false"
              /\ outcome.error \notin {"none", "INVAL"}
              /\ request.opened
              /\ ~outcome.changed
        /\ (~outcome.null /\ ~request.negative /\ ~hasher.some) =>
              /\ outcome.ret = "true"
              /\ outcome.error = "none"
              /\ ~request.opened
              /\ ~outcome.changed
        /\ outcome.changed => (outcome.ret = "true" /\ request.filename = "file")

\* A file update of a disabled digest with a path that cannot be opened has
\* returned true.
FileUpdateOutcomesWitness ==
    /\ outcome.op = "hash_file_part"
    /\ ~outcome.null
    /\ ~request.negative
    /\ ~hasher.some
    /\ request.filename = "missing"
    /\ outcome.ret = "true"

\* C22. Bounded file reader: for a length that is not negative the bytes
\* yielded by all reads are never more than length, and what is yielded plus
\* what remains is length; a read returns at most min(remaining, buffer size)
\* bytes; the bytes yielded are a prefix of the file from `offset`; remaining
\* never goes up; once remaining is 0 or the cursor is at the end of the file
\* every read yields nothing; for a negative length a read with a buffer
\* yields nothing only at the end of the file.
BoundedReader ==
    /\ [](slice.open =>
            /\ slice.length >= 0 =>
                  /\ Len(slice.yielded) <= slice.length
                  /\ Len(slice.yielded) + slice.remaining = slice.length
            /\ slice.nread <= slice.before
            /\ slice.nread <= slice.buflen
            /\ IsPrefix(slice.yielded, FileSlice(FileContent, slice.offset, slice.length))
            /\ (slice.length < 0 /\ slice.buflen > 0 /\ slice.nread = 0) =>
                  slice.pos >= Len(FileContent))
    /\ [][(slice.open /\ slice'.open) => slice'.remaining <= slice.remaining]_vars
    /\ [][(slice.open /\ slice'.open
             /\ (slice.remaining = 0 \/ slice.pos >= Len(FileContent))) =>
                (slice'.nread = 0 /\ slice'.yielded = slice.yielded)]_vars

\* A read with a buffer has yielded nothing because the cap of 2 bytes was
\* reached, although the file has more bytes.
BoundedReaderWitness ==
    /\ slice.open
    /\ slice.length = 2
    /\ Len(slice.yielded) = 2
    /\ slice.remaining = 0
    /\ slice.pos < Len(FileContent)
    /\ slice.buflen > 0
    /\ slice.before = 0
    /\ slice.nread = 0

\* What put's own remove leaves of the cache the last call found.
BaseOfLast == remove(last.pre.lru, last.key)

\* The items of l behind its first m.
Behind(l, m) == SubSeq(l, m + 1, Len(l))

\* put evicts the shortest least-recently-used prefix that makes room and
\* nothing more; a replacement by a size not larger than the old one in a
\* cache within its capacity evicts nothing; set_capacity(n) with
\* n >= total_size evicts nothing.
EvictsShortestPrefix ==
    /\ last.op = "put" =>
          LET n == Len(last.evicted) IN
          /\ last.evicted = SubSeq(BaseOfLast, 1, n)
          /\ \A m \in 0..(n - 1) :
                SumSizes(Behind(BaseOfLast, m)) + last.size > last.pre.capacity
          /\ n < Len(BaseOfLast) =>
                SumSizes(Behind(BaseOfLast, n)) + last.size <= last.pre.capacity
          /\ SumSizes(BaseOfLast) + last.size <= last.pre.capacity => last.evicted = <<>>
          /\ (/\ contains(last.pre.lru, last.key)
              /\ last.size <= ItemOf(last.pre.lru, last.key).size
              /\ last.pre.total_size <= last.pre.capacity) => last.evicted = <<>>
    /\ (last.op = "set_capacity" /\ last.capacity_in_bytes >= last.pre.total_size) =>
          last.evicted = <<>>

\* C25 as stated. Minimal eviction, and a put of a size-0 entry never evicts
\* another key, whatever the state.
MinimalEvictionAsStated ==
    /\ EvictsShortestPrefix
    /\ (last.op = "put" /\ last.size = 0) => last.evicted = <<>>

\* C25. Minimal eviction, and a put of a size-0 entry into a cache with
\* total_size <= capacity never evicts another key.
MinimalEviction ==
    /\ EvictsShortestPrefix
    /\ (last.op = "put" /\ last.size = 0 /\ last.pre.total_size <= last.pre.capacity) =>
          last.evicted = <<>>

\* A put into a cache that was exactly full has evicted the least recently
\* used of several other entries and kept the rest.
MinimalEvictionWitness ==
    /\ last.op = "put"
    /\ Len(BaseOfLast) >= 2
    /\ Len(last.evicted) = 1
    /\ last.pre.total_size = last.pre.capacity
    /\ Len(lru) = Len(BaseOfLast)

\* C26. Racing decode-and-cache: when both workers have missed on the tile and
\* both have put their own buffer for it, then, as long as the cache lives, the
\* key has exactly one resident entry, it holds the value of the put that
\* returned last, and total_size counts it once; the buffer of a worker that
\* still holds its handle is not freed, no buffer is freed twice, and the
\* buffer of the earlier put, which is no longer resident, is freed exactly
\* once when its worker has released the handle.
RacingPuts ==
    BothPut =>
        /\ \A b \in Allocations : freed[b] <= 1
        /\ \A t \in Threads : stage[t].at = "using" =>
              (held[stage[t].handle] > 0 /\ freed[stage[t].handle] = 0)
        /\ alive =>
              /\ Cardinality(EntriesFor(lru, RaceKey)) = 1
              /\ {lru[i].key : i \in DOMAIN lru} \subseteq {RaceKey, OtherKey}
              /\ last.op = "put"
              /\ lookup(lru, RaceKey) = last.val
              /\ total_size = last.size + SumSizes(SelectSeq(lru, LAMBDA i : i.key # RaceKey))
              /\ freed[last.val] = 0
              /\ \A t \in Threads :
                    (stage[t].at = "done" /\ stage[t].handle # last.val) =>
                        freed[stage[t].handle] = 1
        /\ (~alive) => \A b \in given : freed[b] = 1

\* Both workers missed and put; the earlier put's buffer was replaced in the
\* cache while its worker still held the handle, and was freed when the worker
\* released it; the later worker still uses its tile.
RacingPutsWitness ==
    /\ BothPut
    /\ alive
    /\ \E t, u \in Threads :
          /\ stage[t].at = "done"
          /\ stage[t].handle # last.val
          /\ freed[stage[t].handle] = 1
          /\ stage[u].at = "using"
          /\ stage[u].handle = last.val

====
